---- MODULE Spec2Model ----
(***************************************************************************)
(* State-machine model of the C boundary in src/native/whisper_wrapper.cpp:*)
(* opaque handles over the speech (Whisper) and text (LLM) pipelines.      *)
(*                                                                         *)
(* heap  : the wrapper objects the bridge has allocated (address -> object)*)
(* slot  : the caller's void* variable whose address is passed as the      *)
(*         void** out-parameter of the handle-producing operations         *)
(* out   : the caller's other output memory as the last call left it       *)
(* last  : what the last call was and what it returned                     *)
(* fuel  : how many more calls the caller makes                            *)
(* recent: per address, the value the last successful set_max_new_tokens   *)
(*         on the config living there was given (a history variable)       *)
(* held  : the whisper_result_chunk the caller keeps from its last         *)
(*         successful get_chunk_at, and whether the string storage its     *)
(*         text pointer refers to has been released since                  *)
(***************************************************************************)
EXTENDS Integers, Sequences, FiniteSets, TLC

VARIABLES heap, slot, out, last, fuel, recent, held

vars == <<heap, slot, out, last, fuel, recent, held>>

(*************************** bounds of the model ***************************)
\* addresses the allocator can hand out; make_unique throws when all are used
MaxObjs == 3
\* longest native string (bytes before the terminator)
MaxLen == 2
\* most texts / chunks / scores in one native result
MaxItems == 2
\* largest scalar a caller passes to a setter
MaxNum == 1
\* calls in one run of the full interface (Spec)
MaxCalls == 3
\* calls in one run of a single family of operations
MaxDeep == 5
\* width of size_t in the model (2^SizeBits - 1 stands for SIZE_MAX)
SizeBits == 4

(***************************** status codes ********************************)
OV_STATUS_OK == 0
OV_STATUS_GENERAL_ERROR == -1
OV_STATUS_OUT_OF_BOUNDS == -6
OV_STATUS_INVALID_C_PARAM == -14
OV_STATUS_UNKNOW_EXCEPTION == -17
\* the free operations return void
VOID == 1

(************************* pointers and memory *****************************)
NULL == 0
\* a non-null pointer to caller memory
PTR == 1
Ptrs == {NULL, PTR}
Addr == 1..MaxObjs

\* a cell of caller memory no call has written
Untouched == -1
\* the string terminator
NUL == 0

SizeMod == 2 ^ SizeBits
\* size_t subtraction wraps
SizeSub(a, b) == (a - b) % SizeMod
Min(a, b) == IF a < b THEN a ELSE b

\* caller memory starting at the output pointer: the first output_size cells
\* are the buffer, the cells after it are whatever lies behind the buffer
MemLen == MaxLen + 1
FreshMem == [i \in 1..MemLen |-> Untouched]

\* native strings: text j of a result, L bytes long, every byte non-zero
TextOf(j, L) == [i \in 1..L |-> 10 * j + i]
CStrings == {TextOf(0, L) : L \in 0..MaxLen}


(************************ native library objects ***************************)
\* ov::genai::WhisperGenerationConfig as its default constructor leaves it;
\* the optional strings are sets with at most one element
DefaultWhisperConfig ==
    [language |-> {}, task |-> {}, return_timestamps |-> FALSE,
     initial_prompt |-> {}, hotwords |-> {},
     max_initial_timestamp_index |-> 50, decoder_start_token_id |-> 50258,
     suppress_tokens |-> <<>>, begin_suppress_tokens |-> <<>>]

\* ov::genai::GenerationConfig as its default constructor leaves it
DefaultGenerationConfig ==
    [max_new_tokens |-> SizeMod - 1, max_length |-> SizeMod - 1,
     temperature |-> 1, top_p |-> 1, top_k |-> SizeMod - 1, do_sample |-> FALSE,
     repetition_penalty |-> 1, presence_penalty |-> 0, frequency_penalty |-> 0,
     stop_strings |-> <<>>]

\* ov::genai::PerfMetrics: only the statistic the bridge reads, as doubles
PerfMetrics(m) == [features_extraction_duration |-> [mean |-> 2 * m + 1, std |-> m]]
DefaultPerfMetrics == [features_extraction_duration |-> [mean |-> -1, std |-> -1]]

\* static_cast<float>(double): the doubles of the model are integers and the
\* floats are the even ones, so the conversion rounds an odd value up
StaticCastFloat(d) == IF d % 2 = 0 THEN d ELSE d + 1

\* ov::genai::WhisperDecodedResults of nt texts (one score each) and nc chunks,
\* every string L bytes long
WhisperDecodedResults(nt, nc, L, m) ==
    [texts |-> [j \in 1..nt |-> TextOf(j, L)],
     scores |-> [j \in 1..nt |-> 100 + j],
     chunks |-> [j \in 1..nc |->
                   [start_ts |-> 2 * j, end_ts |-> 2 * j + 2, text |-> TextOf(j + 4, L)]],
     perf_metrics |-> PerfMetrics(m)]
\* a default-constructed result
EmptyWhisperDecodedResults ==
    [texts |-> <<>>, scores |-> <<>>, chunks |-> <<>>, perf_metrics |-> DefaultPerfMetrics]
\* what WhisperPipeline::generate can return
WhisperGenerateResults ==
    {WhisperDecodedResults(nt, nc, L, m) :
        nt \in 0..MaxItems, nc \in 0..MaxItems, L \in 0..MaxLen, m \in {0}}

\* ov::genai::DecodedResults: the text the bridge reads, and the metrics;
\* chat records whether the pipeline's chat session was active in generate
DecodedResults(L, m, chat) ==
    [text |-> TextOf(0, L), perf_metrics |-> PerfMetrics(m), chat |-> chat]
EmptyDecodedResults == [text |-> <<>>, perf_metrics |-> DefaultPerfMetrics, chat |-> FALSE]
LLMGenerateResults(chat) == {DecodedResults(L, m, chat) : L \in 0..MaxLen, m \in {0}}

(***************************** wrapper objects *****************************)
NoObj == [kind |-> "free"]
WhisperPipelineWrapper(properties) ==
    [kind |-> "WhisperPipeline", config |-> DefaultWhisperConfig, properties |-> properties]
WhisperConfigWrapper(config) == [kind |-> "WhisperConfig", config |-> config]
WhisperResultWrapper(results) ==
    [kind |-> "WhisperResult", results |-> results, text_cache |-> <<>>, chunk_cache |-> <<>>]
WhisperPerfMetricsWrapper(metrics) == [kind |-> "WhisperPerfMetrics", metrics |-> metrics]
LLMPipelineWrapper(properties) ==
    [kind |-> "LLMPipeline", config |-> DefaultGenerationConfig, chat |-> FALSE,
     properties |-> properties]
GenerationConfigWrapper(config) == [kind |-> "GenerationConfig", config |-> config]
DecodedResultsWrapper(results) ==
    [kind |-> "DecodedResults", results |-> results, text_cache |-> <<>>]
LLMPerfMetricsWrapper(metrics) == [kind |-> "LLMPerfMetrics", metrics |-> metrics]

(******************************* the heap **********************************)
Live(hp) == {a \in Addr : hp[a].kind # "free"}
FreeAddrs(hp) == Addr \ Live(hp)
\* the address operator new returns: any free one is as good as another, the
\* model takes the lowest
NewAddr(hp) == CHOOSE a \in FreeAddrs(hp) : \A b \in FreeAddrs(hp) : a <= b
\* handles a caller can pass where a handle of this kind is expected
Handles(kind) == {NULL} \cup {a \in Addr : heap[a].kind = kind}

\* delete static_cast<Wrapper*>(p): the wrapper and what it holds by value
DeleteWithMetrics(hp, a) ==
    [b \in Addr |->
        IF b = a \/ hp[b].kind \in {"WhisperPerfMetrics", "LLMPerfMetrics"}
        THEN NoObj ELSE hp[b]]
Delete(hp, a) == [hp EXCEPT ![a] = NoObj]
\* a std::unique_ptr going out of scope while it still owns its object
UniquePtrLeak(hp, a) == hp
UniquePtrDestroy(hp, a) == Delete(hp, a)

(***************************** caller memory *******************************)
FreshChunk == [start_time |-> Untouched, end_time |-> Untouched, text |-> <<NULL, 0>>]
FreshOut ==
    [buf |-> FreshMem, num |-> Untouched, chunk |-> FreshChunk, scores |-> <<>>,
     mean |-> Untouched, std |-> Untouched]

\* the caller's copy of a chunk record before any get_chunk_at
NothingHeld == [chunk |-> FreshChunk, released |-> FALSE]

\* *out = value, through a void** the caller passed
StoreHandle(outp, value) == IF outp = NULL THEN slot ELSE value

(************************ the boundary discipline **************************)
\* if (!a || !b || ...) return OV_STATUS_INVALID_C_PARAM;
InvalidHandleOnly(ptrs) == ptrs[1] = NULL
Invalid(ptrs) == \E i \in DOMAIN ptrs : ptrs[i] = NULL

\* what a body can raise
NoFault == {"none"}
\* std::bad_alloc and the like, from the standard library
StdFaults == {"none", "std"}
\* anything, from the native library
NativeFaults == {"none", "std", "other"}

\* WHISPER_WRAPPER_TRY_CATCH: the status for what the body raised
TryCatchNoCatchAll(fault) ==
    IF fault = "none" THEN OV_STATUS_OK ELSE OV_STATUS_GENERAL_ERROR
WHISPER_WRAPPER_TRY_CATCH(fault) ==
    CASE fault = "none" -> OV_STATUS_OK
      [] fault = "std" -> OV_STATUS_GENERAL_ERROR
      [] OTHER -> OV_STATUS_UNKNOW_EXCEPTION

\* the record of a call: the operation, its handle argument, the pointer
\* arguments it requires as they were passed, its numeric arguments (index,
\* capacity, value), the status, how many calls into the native
\* library it made, what the body raised, whether validation rejected it
Call(op, h, ptrs, args, status, native, fault) ==
    [op |-> op, h |-> h, ptrs |-> ptrs, args |-> args, status |-> status, native |-> native,
     fault |-> fault, invalid |-> FALSE]
Rejected(op, h, ptrs) ==
    [op |-> op, h |-> h, ptrs |-> ptrs, args |-> <<>>, status |-> OV_STATUS_INVALID_C_PARAM,
     native |-> 0, fault |-> "none", invalid |-> TRUE]

\* the history of set_max_new_tokens, kept up after each call: the value of a
\* successful call on the config at an address, nothing for an address that
\* holds no text generation config
Remember ==
    recent' = [a \in Addr |->
                 IF heap'[a].kind # "GenerationConfig" THEN Untouched
                 ELSE IF /\ last'.op = "generation_config_set_max_new_tokens"
                         /\ last'.h = a
                         /\ last'.status = OV_STATUS_OK
                      THEN last'.args[1]
                      ELSE recent[a]]

\* the caller keeps the record a successful get_chunk_at filled in; the
\* std::string its text pointer refers to lives in the chunks of the result
\* wrapper and is destroyed with that wrapper
Keep ==
    held' = IF /\ last'.op = "whisper_decoded_results_get_chunk_at"
               /\ last'.status = OV_STATUS_OK
            THEN [chunk |-> out'.chunk, released |-> FALSE]
            ELSE LET owner == held.chunk.text[1]
                 IN  IF /\ owner # NULL
                        /\ heap[owner].kind = "WhisperResult"
                        /\ heap'[owner] = NoObj
                     THEN [held EXCEPT !.released = TRUE]
                     ELSE held

\* the early return of the null checks: nothing is touched
Reject(op, h, ptrs) ==
    /\ heap' = heap
    /\ slot' = slot
    /\ out' = FreshOut
    /\ last' = Rejected(op, h, ptrs)
    /\ Remember
    /\ Keep

\* a body that allocates a wrapper with make_unique, fills it by `native` calls
\* into the library and releases it into *outp as its last statement
Produce(op, h, ptrs, args, outp, native, faults, objs) ==
    IF FreeAddrs(heap) = {}
    THEN \* make_unique throws std::bad_alloc
         /\ heap' = heap
         /\ slot' = slot
         /\ out' = FreshOut
         /\ last' = Call(op, h, ptrs, args, WHISPER_WRAPPER_TRY_CATCH("std"), 0, "std")
         /\ Remember
         /\ Keep
    ELSE \E fault \in faults :
           LET a == NewAddr(heap)
           IN  /\ IF fault = "none"
                  THEN \E obj \in objs :
                          /\ heap' = [heap EXCEPT ![a] = obj]
                          /\ slot' = StoreHandle(outp, a)
                  ELSE \* the unique_ptr still owns the wrapper, whatever it holds
                       LET made == [heap EXCEPT ![a] = CHOOSE obj \in objs : TRUE]
                       IN  /\ heap' = UniquePtrDestroy(made, a)
                           /\ slot' = slot
               /\ out' = FreshOut
               /\ last' = Call(op, h, ptrs, args, WHISPER_WRAPPER_TRY_CATCH(fault), native, fault)
               /\ Remember
               /\ Keep

\* a body that changes the heap, or nothing, and writes no output
Update(op, h, ptrs, args, native, faults, hp) ==
    \E fault \in faults :
        /\ heap' = IF fault = "none" THEN hp ELSE heap
        /\ slot' = slot
        /\ out' = FreshOut
        /\ last' = Call(op, h, ptrs, args, WHISPER_WRAPPER_TRY_CATCH(fault), native, fault)
        /\ Remember
        /\ Keep

\* a free operation: if (p) { delete static_cast<Wrapper*>(p); }
FreeForgetsDelete(op, h) ==
    /\ heap' = heap
    /\ slot' = slot
    /\ out' = FreshOut
    /\ last' = Call(op, h, <<>>, <<>>, VOID, 0, "none")
    /\ Remember
    /\ Keep
Free(op, h) ==
    /\ heap' = IF h = NULL THEN heap ELSE Delete(heap, h)
    /\ slot' = slot
    /\ out' = FreshOut
    /\ last' = Call(op, h, <<>>, <<>>, VOID, 0, "none")
    /\ Remember
    /\ Keep

\* one more call of the caller
Spend == fuel > 0 /\ fuel' = fuel - 1

\* a body that reads a wrapper and writes caller memory; it raises nothing
AccessMovesOut(op, h, ptrs, args, status, written) ==
    /\ heap' = IF heap[h].kind = "WhisperResult"
               THEN [heap EXCEPT ![h].results = EmptyWhisperDecodedResults]
               ELSE heap
    /\ slot' = slot
    /\ out' = written
    /\ last' = Call(op, h, ptrs, args, status, 0, "none")
    /\ Remember
    /\ Keep
Access(op, h, ptrs, args, status, written) ==
    /\ heap' = heap
    /\ slot' = slot
    /\ out' = written
    /\ last' = Call(op, h, ptrs, args, status, 0, "none")
    /\ Remember
    /\ Keep

(*********************** arguments a caller passes *************************)
\* property_args_size, and the key/value pairs that follow the fixed arguments
PropertyArgsSizes == {0, 2}
TrailingArgs(property_args_size) ==
    IF property_args_size = 0 THEN <<>> ELSE <<"CACHE_DIR", "npu_cache">>
\* scalars for the setters
Nums == 0..MaxNum
\* the caller's array behind an int64_t* argument, and its element counts
TokenArray == [i \in 1..MaxNum |-> 6 + i]
\* the caller's array behind the const char** of set_stop_strings
StopArray == [i \in 1..MaxNum |-> TextOf(i, 1)]
\* std::vector<T>(p, p + n)
Range(array, n) == SubSeq(array, 1, n)

(************************** speech pipeline ********************************)
\* the properties the native pipeline is constructed with: the constructor
\* call passes the model path and the device, and nothing else
ConstructorProperties(property_args_size, trailing) == <<>>

ov_genai_whisper_pipeline_create ==
    /\ Spend
    /\ \E models_path \in Ptrs, device \in Ptrs, pipe \in Ptrs :
        IF Invalid(<<models_path, device, pipe>>)
        THEN Reject("whisper_pipeline_create", NULL, <<models_path, device, pipe>>)
        ELSE \E property_args_size \in PropertyArgsSizes :
                Produce("whisper_pipeline_create", NULL, <<models_path, device, pipe>>,
                        <<property_args_size>>, pipe, 1, NativeFaults,
                        {WhisperPipelineWrapper(
                            ConstructorProperties(property_args_size,
                                                  TrailingArgs(property_args_size)))})

ov_genai_whisper_pipeline_free ==
    /\ Spend
    /\ \E pipe \in Handles("WhisperPipeline") : Free("whisper_pipeline_free", pipe)

ov_genai_whisper_pipeline_generate ==
    /\ Spend
    /\ \E pipe \in Handles("WhisperPipeline"), raw_speech_input \in Ptrs, results \in Ptrs :
        IF Invalid(<<pipe, raw_speech_input, results>>)
        THEN Reject("whisper_pipeline_generate", pipe, <<pipe, raw_speech_input, results>>)
        ELSE \E config \in Handles("WhisperConfig") :
                Produce("whisper_pipeline_generate", pipe, <<pipe, raw_speech_input, results>>,
                        <<>>, results, 1, NativeFaults,
                        {WhisperResultWrapper(r) : r \in WhisperGenerateResults})

ov_genai_whisper_pipeline_get_generation_config ==
    /\ Spend
    /\ \E pipe \in Handles("WhisperPipeline"), config \in Ptrs :
        IF Invalid(<<pipe, config>>)
        THEN Reject("whisper_pipeline_get_generation_config", pipe, <<pipe, config>>)
        ELSE Produce("whisper_pipeline_get_generation_config", pipe, <<pipe, config>>, <<>>, config, 1,
                     NativeFaults, {WhisperConfigWrapper(heap[pipe].config)})

\* wrapper->pipeline->set_generation_config(*config_wrapper->config): the
\* pipeline stores a copy of the configuration behind the config handle
SetGenerationConfig(hp, pipe, config) == [hp EXCEPT ![pipe].config = hp[config].config]

ov_genai_whisper_pipeline_set_generation_config ==
    /\ Spend
    /\ \E pipe \in Handles("WhisperPipeline"), config \in Handles("WhisperConfig") :
        IF Invalid(<<pipe, config>>)
        THEN Reject("whisper_pipeline_set_generation_config", pipe, <<pipe, config>>)
        ELSE Update("whisper_pipeline_set_generation_config", pipe, <<pipe, config>>, <<>>, 1, NativeFaults,
                    SetGenerationConfig(heap, pipe, config))

(*********************** speech generation config **************************)
ov_genai_whisper_generation_config_create ==
    /\ Spend
    /\ \E config \in Ptrs :
        IF Invalid(<<config>>)
        THEN Reject("whisper_generation_config_create", NULL, <<config>>)
        ELSE Produce("whisper_generation_config_create", NULL, <<config>>, <<>>, config, 1, StdFaults,
                     {WhisperConfigWrapper(DefaultWhisperConfig)})

ov_genai_whisper_generation_config_free ==
    /\ Spend
    /\ \E config \in Handles("WhisperConfig") :
        Free("whisper_generation_config_free", config)

\* wrapper->config->field = value: the one field of the one wrapper changes
SetFieldOfEveryConfig(hp, config, field, value) ==
    [a \in Addr |->
        IF hp[a].kind \in {"WhisperConfig", "WhisperPipeline", "GenerationConfig", "LLMPipeline"}
           /\ field \in DOMAIN hp[a].config
        THEN [hp[a] EXCEPT !.config[field] = value]
        ELSE hp[a]]
SetField(hp, config, field, value) == [hp EXCEPT ![config].config[field] = value]

\* a setter of a string field: std::string(p) may throw std::bad_alloc
StringSetter(op, kind, field) ==
    \E config \in Handles(kind), p \in Ptrs :
        IF Invalid(<<config, p>>)
        THEN Reject(op, config, <<config, p>>)
        ELSE \E s \in CStrings :
                Update(op, config, <<config, p>>, <<>>, 0, StdFaults,
                       SetField(heap, config, field, {s}))

\* a setter of a scalar field: an assignment, which raises nothing
ScalarSetter(op, kind, field, values) ==
    \E config \in Handles(kind) :
        IF Invalid(<<config>>)
        THEN Reject(op, config, <<config>>)
        ELSE \E v \in values :
                Update(op, config, <<config>>, <<v>>, 0, NoFault,
                       SetField(heap, config, field, v))

\* a setter of a list field: the vector built from (p, size) may throw
ListSetter(op, kind, field, array) ==
    \E config \in Handles(kind), p \in Ptrs :
        IF Invalid(<<config, p>>)
        THEN Reject(op, config, <<config, p>>)
        ELSE \E size \in 0..MaxNum :
                Update(op, config, <<config, p>>, <<size>>, 0, StdFaults,
                       SetField(heap, config, field, Range(array, size)))

ov_genai_whisper_generation_config_set_language ==
    Spend /\ StringSetter("whisper_generation_config_set_language", "WhisperConfig", "language")
ov_genai_whisper_generation_config_set_task ==
    Spend /\ StringSetter("whisper_generation_config_set_task", "WhisperConfig", "task")
ov_genai_whisper_generation_config_set_return_timestamps ==
    Spend /\ ScalarSetter("whisper_generation_config_set_return_timestamps", "WhisperConfig",
                          "return_timestamps", BOOLEAN)
ov_genai_whisper_generation_config_set_initial_prompt ==
    Spend /\ StringSetter("whisper_generation_config_set_initial_prompt", "WhisperConfig",
                          "initial_prompt")
ov_genai_whisper_generation_config_set_hotwords ==
    Spend /\ StringSetter("whisper_generation_config_set_hotwords", "WhisperConfig", "hotwords")
ov_genai_whisper_generation_config_set_max_initial_timestamp_index ==
    Spend /\ ScalarSetter("whisper_generation_config_set_max_initial_timestamp_index",
                          "WhisperConfig", "max_initial_timestamp_index", Nums)
ov_genai_whisper_generation_config_set_decoder_start_token_id ==
    Spend /\ ScalarSetter("whisper_generation_config_set_decoder_start_token_id",
                          "WhisperConfig", "decoder_start_token_id", Nums)
ov_genai_whisper_generation_config_set_suppress_tokens ==
    Spend /\ ListSetter("whisper_generation_config_set_suppress_tokens", "WhisperConfig",
                        "suppress_tokens", TokenArray)
ov_genai_whisper_generation_config_set_begin_suppress_tokens ==
    Spend /\ ListSetter("whisper_generation_config_set_begin_suppress_tokens", "WhisperConfig",
                        "begin_suppress_tokens", TokenArray)

(***************************** speech results ******************************)
ov_genai_whisper_decoded_results_create ==
    /\ Spend
    /\ \E results \in Ptrs :
        IF Invalid(<<results>>)
        THEN Reject("whisper_decoded_results_create", NULL, <<results>>)
        ELSE Produce("whisper_decoded_results_create", NULL, <<results>>, <<>>, results, 0, NoFault,
                     {WhisperResultWrapper(EmptyWhisperDecodedResults)})

ov_genai_whisper_decoded_results_free ==
    /\ Spend
    /\ \E results \in Handles("WhisperResult") :
        Free("whisper_decoded_results_free", results)

ov_genai_whisper_decoded_results_get_texts_size ==
    /\ Spend
    /\ \E results \in Handles("WhisperResult"), texts_size \in Ptrs :
        IF Invalid(<<results, texts_size>>)
        THEN Reject("whisper_decoded_results_get_texts_size", results, <<results, texts_size>>)
        ELSE Access("whisper_decoded_results_get_texts_size", results, <<results, texts_size>>, <<>>, OV_STATUS_OK,
                    [FreshOut EXCEPT !.num = Len(heap[results].results.texts)])

\* index >= v.size(), the range check of the index accessors
IndexRejectsLast(index, size) == index + 1 >= size
IndexOutOfBounds(index, size) == index >= size

\* size_t copy_size = std::min(output_size - 1, text.size());
CopySize(output_size, text) == Min(SizeSub(output_size, 1), Len(text))
\* std::memcpy(output, text.c_str(), copy_size); output[copy_size] = '\0';
\* text.c_str() is the text followed by its terminator
CopyOut(text, copy_size) ==
    [i \in 1..MemLen |->
        IF i <= copy_size THEN Append(text, NUL)[i]
        ELSE IF i = copy_size + 1 THEN NUL
        ELSE Untouched]

ov_genai_whisper_decoded_results_get_text_at ==
    /\ Spend
    /\ \E results \in Handles("WhisperResult"), output \in Ptrs :
        IF Invalid(<<results, output>>)
        THEN Reject("whisper_decoded_results_get_text_at", results, <<results, output>>)
        ELSE \E index \in 0..MaxItems, output_size \in 0..MemLen :
             LET texts == heap[results].results.texts
             IN  IF IndexOutOfBounds(index, Len(texts))
                 THEN Access("whisper_decoded_results_get_text_at", results,
                             <<results, output>>, <<index, output_size>>, OV_STATUS_OUT_OF_BOUNDS, FreshOut)
                 ELSE LET text == texts[index + 1]
                      IN  Access("whisper_decoded_results_get_text_at", results,
                                 <<results, output>>, <<index, output_size>>, OV_STATUS_OK,
                                 [FreshOut EXCEPT
                                    !.buf = CopyOut(text, CopySize(output_size, text))])

ov_genai_whisper_decoded_results_get_chunks_size ==
    /\ Spend
    /\ \E results \in Handles("WhisperResult"), chunks_size \in Ptrs :
        IF Invalid(<<results, chunks_size>>)
        THEN Reject("whisper_decoded_results_get_chunks_size", results, <<results, chunks_size>>)
        ELSE Access("whisper_decoded_results_get_chunks_size", results, <<results, chunks_size>>, <<>>, OV_STATUS_OK,
                    [FreshOut EXCEPT !.num = Len(heap[results].results.chunks)])

\* src_chunk.text.c_str(): a pointer into the storage of chunk number n of the
\* result the wrapper at address results owns
CStrOfNothing(results, n) == <<NULL, n>>
CStrOfChunk(results, n) == <<results, n>>

ov_genai_whisper_decoded_results_get_chunk_at ==
    /\ Spend
    /\ \E results \in Handles("WhisperResult"), chunk \in Ptrs :
        IF Invalid(<<results, chunk>>)
        THEN Reject("whisper_decoded_results_get_chunk_at", results, <<results, chunk>>)
        ELSE \E index \in 0..MaxItems :
             LET chunks == heap[results].results.chunks
             IN  IF IndexOutOfBounds(index, Len(chunks))
                 THEN Access("whisper_decoded_results_get_chunk_at", results, <<results, chunk>>, <<index>>,
                             OV_STATUS_OUT_OF_BOUNDS, FreshOut)
                 ELSE LET src_chunk == chunks[index + 1]
                      IN  Access("whisper_decoded_results_get_chunk_at", results, <<results, chunk>>, <<index>>,
                                 OV_STATUS_OK,
                                 [FreshOut EXCEPT
                                    !.chunk = [start_time |-> src_chunk.start_ts,
                                               end_time |-> src_chunk.end_ts,
                                               text |-> CStrOfChunk(results, index + 1)]])

\* the caller's float array of scores_size elements before the call
FreshScores(scores_size) == [i \in 1..scores_size |-> Untouched]
\* scores_size < scores.size(), the capacity check of get_scores
CapacityNotAbove(scores_size, n) == scores_size <= n
CapacityTooSmall(scores_size, n) == scores_size < n
\* std::memcpy(scores, data, n * sizeof(float)) into an array of scores_size
CopyScores(scores_size, scores) ==
    [i \in 1..scores_size |-> IF i <= Len(scores) THEN scores[i] ELSE Untouched]

ov_genai_whisper_decoded_results_get_scores ==
    /\ Spend
    /\ \E results \in Handles("WhisperResult"), scores \in Ptrs :
        IF Invalid(<<results, scores>>)
        THEN Reject("whisper_decoded_results_get_scores", results, <<results, scores>>)
        ELSE \E scores_size \in 0..(MaxItems + 1) :
             LET native == heap[results].results.scores
             IN  IF CapacityTooSmall(scores_size, Len(native))
                 THEN Access("whisper_decoded_results_get_scores", results, <<results, scores>>, <<scores_size>>,
                             OV_STATUS_OUT_OF_BOUNDS,
                             [FreshOut EXCEPT !.scores = FreshScores(scores_size)])
                 ELSE Access("whisper_decoded_results_get_scores", results, <<results, scores>>, <<scores_size>>,
                             OV_STATUS_OK,
                             [FreshOut EXCEPT !.scores = CopyScores(scores_size, native)])

ov_genai_whisper_decoded_results_get_perf_metrics ==
    /\ Spend
    /\ \E results \in Handles("WhisperResult"), metrics \in Ptrs :
        IF Invalid(<<results, metrics>>)
        THEN Reject("whisper_decoded_results_get_perf_metrics", results, <<results, metrics>>)
        ELSE Produce("whisper_decoded_results_get_perf_metrics", results, <<results, metrics>>, <<>>, metrics, 0,
                     StdFaults,
                     {WhisperPerfMetricsWrapper(heap[results].results.perf_metrics)})

(************************** performance metrics ****************************)
ov_genai_whisper_perf_metrics_get_features_extraction_duration ==
    /\ Spend
    /\ \E metrics \in Handles("WhisperPerfMetrics"), mean \in Ptrs, std \in Ptrs :
        IF Invalid(<<metrics, mean, std>>)
        THEN Reject("whisper_perf_metrics_get_features_extraction_duration", metrics, <<metrics, mean, std>>)
        ELSE LET duration == heap[metrics].metrics.features_extraction_duration
             IN  Access("whisper_perf_metrics_get_features_extraction_duration", metrics,
                        <<metrics, mean, std>>, <<>>, OV_STATUS_OK,
                        [FreshOut EXCEPT !.mean = StaticCastFloat(duration.mean),
                                         !.std = StaticCastFloat(duration.std)])

ov_genai_whisper_perf_metrics_free ==
    /\ Spend
    /\ \E metrics \in Handles("WhisperPerfMetrics") :
        Free("whisper_perf_metrics_free", metrics)

(***************************** text pipeline *******************************)
ov_genai_llm_pipeline_create ==
    /\ Spend
    /\ \E models_path \in Ptrs, device \in Ptrs, pipe \in Ptrs :
        IF Invalid(<<models_path, device, pipe>>)
        THEN Reject("llm_pipeline_create", NULL, <<models_path, device, pipe>>)
        ELSE \E property_args_size \in PropertyArgsSizes :
                Produce("llm_pipeline_create", NULL, <<models_path, device, pipe>>,
                        <<property_args_size>>, pipe, 1, NativeFaults,
                        {LLMPipelineWrapper(
                            ConstructorProperties(property_args_size,
                                                  TrailingArgs(property_args_size)))})

ov_genai_llm_pipeline_free ==
    /\ Spend
    /\ \E pipe \in Handles("LLMPipeline") : Free("llm_pipeline_free", pipe)

ov_genai_llm_pipeline_generate ==
    /\ Spend
    /\ \E pipe \in Handles("LLMPipeline"), input_text \in Ptrs, results \in Ptrs :
        IF Invalid(<<pipe, input_text, results>>)
        THEN Reject("llm_pipeline_generate", pipe, <<pipe, input_text, results>>)
        ELSE \E config \in Handles("GenerationConfig") :
                Produce("llm_pipeline_generate", pipe, <<pipe, input_text, results>>,
                        <<>>, results, 1, NativeFaults,
                        {DecodedResultsWrapper(r) : r \in LLMGenerateResults(heap[pipe].chat)})

\* LLMPipeline::start_chat and finish_chat: the session flag of the pipeline
StartChat(pipeline) == [pipeline EXCEPT !.chat = TRUE]
FinishChatKeepsSession(pipeline) == pipeline
FinishChat(pipeline) == [pipeline EXCEPT !.chat = FALSE]

ov_genai_llm_pipeline_start_chat ==
    /\ Spend
    /\ \E pipe \in Handles("LLMPipeline") :
        IF Invalid(<<pipe>>)
        THEN Reject("llm_pipeline_start_chat", pipe, <<pipe>>)
        ELSE Update("llm_pipeline_start_chat", pipe, <<pipe>>, <<>>, 1, NativeFaults,
                    [heap EXCEPT ![pipe] = StartChat(heap[pipe])])

ov_genai_llm_pipeline_finish_chat ==
    /\ Spend
    /\ \E pipe \in Handles("LLMPipeline") :
        IF Invalid(<<pipe>>)
        THEN Reject("llm_pipeline_finish_chat", pipe, <<pipe>>)
        ELSE Update("llm_pipeline_finish_chat", pipe, <<pipe>>, <<>>, 1, NativeFaults,
                    [heap EXCEPT ![pipe] = FinishChat(heap[pipe])])

ov_genai_llm_pipeline_get_generation_config ==
    /\ Spend
    /\ \E pipe \in Handles("LLMPipeline"), config \in Ptrs :
        IF Invalid(<<pipe, config>>)
        THEN Reject("llm_pipeline_get_generation_config", pipe, <<pipe, config>>)
        ELSE Produce("llm_pipeline_get_generation_config", pipe, <<pipe, config>>, <<>>, config, 1,
                     NativeFaults, {GenerationConfigWrapper(heap[pipe].config)})

ov_genai_llm_pipeline_set_generation_config ==
    /\ Spend
    /\ \E pipe \in Handles("LLMPipeline"), config \in Handles("GenerationConfig") :
        IF Invalid(<<pipe, config>>)
        THEN Reject("llm_pipeline_set_generation_config", pipe, <<pipe, config>>)
        ELSE Update("llm_pipeline_set_generation_config", pipe, <<pipe, config>>, <<>>, 1, NativeFaults,
                    SetGenerationConfig(heap, pipe, config))

(************************* text generation config **************************)
ov_genai_generation_config_create ==
    /\ Spend
    /\ \E config \in Ptrs :
        IF Invalid(<<config>>)
        THEN Reject("generation_config_create", NULL, <<config>>)
        ELSE Produce("generation_config_create", NULL, <<config>>, <<>>, config, 1, StdFaults,
                     {GenerationConfigWrapper(DefaultGenerationConfig)})

\* the JSON text is not parsed: the config is the default one
ov_genai_generation_config_create_from_json ==
    /\ Spend
    /\ \E json_config \in Ptrs, config \in Ptrs :
        IF Invalid(<<json_config, config>>)
        THEN Reject("generation_config_create_from_json", NULL, <<json_config, config>>)
        ELSE Produce("generation_config_create_from_json", NULL, <<json_config, config>>, <<>>, config, 1, StdFaults,
                     {GenerationConfigWrapper(DefaultGenerationConfig)})

ov_genai_generation_config_free ==
    /\ Spend
    /\ \E config \in Handles("GenerationConfig") : Free("generation_config_free", config)

\* the field set_max_length assigns
MaxLengthFieldSlip == "max_new_tokens"
MaxLengthField == "max_length"

ov_genai_generation_config_set_max_new_tokens ==
    Spend /\ ScalarSetter("generation_config_set_max_new_tokens", "GenerationConfig",
                          "max_new_tokens", Nums)
ov_genai_generation_config_set_max_length ==
    Spend /\ ScalarSetter("generation_config_set_max_length", "GenerationConfig",
                          MaxLengthField, Nums)
ov_genai_generation_config_set_temperature ==
    Spend /\ ScalarSetter("generation_config_set_temperature", "GenerationConfig",
                          "temperature", Nums)
ov_genai_generation_config_set_top_p ==
    Spend /\ ScalarSetter("generation_config_set_top_p", "GenerationConfig", "top_p", Nums)
ov_genai_generation_config_set_top_k ==
    Spend /\ ScalarSetter("generation_config_set_top_k", "GenerationConfig", "top_k", Nums)
ov_genai_generation_config_set_do_sample ==
    Spend /\ ScalarSetter("generation_config_set_do_sample", "GenerationConfig",
                          "do_sample", BOOLEAN)
ov_genai_generation_config_set_repetition_penalty ==
    Spend /\ ScalarSetter("generation_config_set_repetition_penalty", "GenerationConfig",
                          "repetition_penalty", Nums)
ov_genai_generation_config_set_presence_penalty ==
    Spend /\ ScalarSetter("generation_config_set_presence_penalty", "GenerationConfig",
                          "presence_penalty", Nums)
ov_genai_generation_config_set_frequency_penalty ==
    Spend /\ ScalarSetter("generation_config_set_frequency_penalty", "GenerationConfig",
                          "frequency_penalty", Nums)
ov_genai_generation_config_set_stop_strings ==
    Spend /\ ListSetter("generation_config_set_stop_strings", "GenerationConfig",
                        "stop_strings", StopArray)

ov_genai_generation_config_get_max_new_tokens ==
    /\ Spend
    /\ \E config \in Handles("GenerationConfig"), max_new_tokens \in Ptrs :
        IF Invalid(<<config, max_new_tokens>>)
        THEN Reject("generation_config_get_max_new_tokens", config, <<config, max_new_tokens>>)
        ELSE Access("generation_config_get_max_new_tokens", config, <<config, max_new_tokens>>, <<>>, OV_STATUS_OK,
                    [FreshOut EXCEPT !.num = heap[config].config.max_new_tokens])

\* the body is empty: the call to validate() is commented out
ov_genai_generation_config_validate ==
    /\ Spend
    /\ \E config \in Handles("GenerationConfig") :
        IF Invalid(<<config>>)
        THEN Reject("generation_config_validate", config, <<config>>)
        ELSE Update("generation_config_validate", config, <<config>>, <<>>, 0, NoFault, heap)

(****************************** text results *******************************)
ov_genai_decoded_results_create ==
    /\ Spend
    /\ \E results \in Ptrs :
        IF Invalid(<<results>>)
        THEN Reject("decoded_results_create", NULL, <<results>>)
        ELSE Produce("decoded_results_create", NULL, <<results>>, <<>>, results, 0, NoFault,
                     {DecodedResultsWrapper(EmptyDecodedResults)})

ov_genai_decoded_results_free ==
    /\ Spend
    /\ \E results \in Handles("DecodedResults") : Free("decoded_results_free", results)

ov_genai_decoded_results_get_string ==
    /\ Spend
    /\ \E results \in Handles("DecodedResults"), output \in Ptrs :
        IF Invalid(<<results, output>>)
        THEN Reject("decoded_results_get_string", results, <<results, output>>)
        ELSE \E output_size \in 0..MemLen :
             LET text == heap[results].results.text
             IN  Access("decoded_results_get_string", results, <<results, output>>, <<output_size>>, OV_STATUS_OK,
                        [FreshOut EXCEPT !.buf = CopyOut(text, CopySize(output_size, text))])

ov_genai_decoded_results_get_perf_metrics ==
    /\ Spend
    /\ \E results \in Handles("DecodedResults"), metrics \in Ptrs :
        IF Invalid(<<results, metrics>>)
        THEN Reject("decoded_results_get_perf_metrics", results, <<results, metrics>>)
        ELSE Produce("decoded_results_get_perf_metrics", results, <<results, metrics>>, <<>>, metrics, 0, StdFaults,
                     {LLMPerfMetricsWrapper(heap[results].results.perf_metrics)})

ov_genai_decoded_results_perf_metrics_free ==
    /\ Spend
    /\ \E metrics \in Handles("LLMPerfMetrics") :
        Free("decoded_results_perf_metrics_free", metrics)

(**************************** specifications *******************************)
\* no wrapper exists and the caller's variables are fresh
Start ==
    /\ heap = [a \in Addr |-> NoObj]
    /\ slot = NULL
    /\ out = FreshOut
    /\ last = Call("none", NULL, <<>>, <<>>, VOID, 0, "none")
    /\ recent = [a \in Addr |-> Untouched]
    /\ held = NothingHeld

Init == Start /\ fuel = MaxCalls

\* every operation of the interface
Next ==
    \/ ov_genai_whisper_pipeline_create
    \/ ov_genai_whisper_pipeline_free
    \/ ov_genai_whisper_pipeline_generate
    \/ ov_genai_whisper_pipeline_get_generation_config
    \/ ov_genai_whisper_pipeline_set_generation_config
    \/ ov_genai_whisper_generation_config_create
    \/ ov_genai_whisper_generation_config_free
    \/ ov_genai_whisper_generation_config_set_language
    \/ ov_genai_whisper_generation_config_set_task
    \/ ov_genai_whisper_generation_config_set_return_timestamps
    \/ ov_genai_whisper_generation_config_set_initial_prompt
    \/ ov_genai_whisper_generation_config_set_hotwords
    \/ ov_genai_whisper_generation_config_set_max_initial_timestamp_index
    \/ ov_genai_whisper_generation_config_set_decoder_start_token_id
    \/ ov_genai_whisper_generation_config_set_suppress_tokens
    \/ ov_genai_whisper_generation_config_set_begin_suppress_tokens
    \/ ov_genai_whisper_decoded_results_create
    \/ ov_genai_whisper_decoded_results_free
    \/ ov_genai_whisper_decoded_results_get_texts_size
    \/ ov_genai_whisper_decoded_results_get_text_at
    \/ ov_genai_whisper_decoded_results_get_chunks_size
    \/ ov_genai_whisper_decoded_results_get_chunk_at
    \/ ov_genai_whisper_decoded_results_get_scores
    \/ ov_genai_whisper_decoded_results_get_perf_metrics
    \/ ov_genai_whisper_perf_metrics_get_features_extraction_duration
    \/ ov_genai_whisper_perf_metrics_free
    \/ ov_genai_llm_pipeline_create
    \/ ov_genai_llm_pipeline_free
    \/ ov_genai_llm_pipeline_generate
    \/ ov_genai_llm_pipeline_start_chat
    \/ ov_genai_llm_pipeline_finish_chat
    \/ ov_genai_llm_pipeline_get_generation_config
    \/ ov_genai_llm_pipeline_set_generation_config
    \/ ov_genai_generation_config_create
    \/ ov_genai_generation_config_create_from_json
    \/ ov_genai_generation_config_free
    \/ ov_genai_generation_config_set_max_new_tokens
    \/ ov_genai_generation_config_set_max_length
    \/ ov_genai_generation_config_set_temperature
    \/ ov_genai_generation_config_set_top_p
    \/ ov_genai_generation_config_set_top_k
    \/ ov_genai_generation_config_set_do_sample
    \/ ov_genai_generation_config_set_repetition_penalty
    \/ ov_genai_generation_config_set_presence_penalty
    \/ ov_genai_generation_config_set_frequency_penalty
    \/ ov_genai_generation_config_set_stop_strings
    \/ ov_genai_generation_config_get_max_new_tokens
    \/ ov_genai_generation_config_validate
    \/ ov_genai_decoded_results_create
    \/ ov_genai_decoded_results_free
    \/ ov_genai_decoded_results_get_string
    \/ ov_genai_decoded_results_get_perf_metrics
    \/ ov_genai_decoded_results_perf_metrics_free

Spec == Init /\ [][Next]_vars

\* the configuration operations alone, in longer runs: both families' pipeline
\* create, get and set of the generation config, config create, the text
\* config's free, and setters and the getter the configuration claims name
InitConfig == Start /\ fuel = MaxDeep
NextConfig ==
    \/ ov_genai_whisper_pipeline_create
    \/ ov_genai_whisper_pipeline_get_generation_config
    \/ ov_genai_whisper_pipeline_set_generation_config
    \/ ov_genai_whisper_generation_config_create
    \/ ov_genai_whisper_generation_config_set_return_timestamps
    \/ ov_genai_llm_pipeline_create
    \/ ov_genai_llm_pipeline_get_generation_config
    \/ ov_genai_llm_pipeline_set_generation_config
    \/ ov_genai_generation_config_create
    \/ ov_genai_generation_config_free
    \/ ov_genai_generation_config_set_max_new_tokens
    \/ ov_genai_generation_config_set_max_length
    \/ ov_genai_generation_config_set_temperature
    \/ ov_genai_generation_config_get_max_new_tokens
SpecConfig == InitConfig /\ [][NextConfig]_vars

\* the speech pipeline and what is derived from it, in longer runs: a
\* pipeline, its results, their accessors and metrics, and the frees
InitSpeech == Start /\ fuel = MaxDeep
NextSpeech ==
    \/ ov_genai_whisper_pipeline_create
    \/ ov_genai_whisper_pipeline_free
    \/ ov_genai_whisper_pipeline_generate
    \/ ov_genai_whisper_decoded_results_free
    \/ ov_genai_whisper_decoded_results_get_text_at
    \/ ov_genai_whisper_decoded_results_get_chunk_at
    \/ ov_genai_whisper_decoded_results_get_scores
    \/ ov_genai_whisper_decoded_results_get_perf_metrics
    \/ ov_genai_whisper_perf_metrics_get_features_extraction_duration
    \/ ov_genai_whisper_perf_metrics_free
SpecSpeech == InitSpeech /\ [][NextSpeech]_vars

\* the text pipeline and what is derived from it, in longer runs
InitText == Start /\ fuel = MaxDeep
NextText ==
    \/ ov_genai_llm_pipeline_create
    \/ ov_genai_llm_pipeline_free
    \/ ov_genai_llm_pipeline_generate
    \/ ov_genai_llm_pipeline_start_chat
    \/ ov_genai_llm_pipeline_finish_chat
    \/ ov_genai_decoded_results_free
    \/ ov_genai_decoded_results_get_string
    \/ ov_genai_decoded_results_get_perf_metrics
    \/ ov_genai_decoded_results_perf_metrics_free
SpecText == InitText /\ [][NextText]_vars

(********************* vocabulary of the properties ************************)
Frees ==
    {"whisper_pipeline_free", "whisper_generation_config_free", "whisper_decoded_results_free",
     "whisper_perf_metrics_free", "llm_pipeline_free", "generation_config_free",
     "decoded_results_free", "decoded_results_perf_metrics_free"}
Producers ==
    {"whisper_pipeline_create", "whisper_pipeline_generate",
     "whisper_pipeline_get_generation_config", "whisper_generation_config_create",
     "whisper_decoded_results_create", "whisper_decoded_results_get_perf_metrics",
     "llm_pipeline_create", "llm_pipeline_generate", "llm_pipeline_get_generation_config",
     "generation_config_create", "generation_config_create_from_json",
     "decoded_results_create", "decoded_results_get_perf_metrics"}
\* the last call returned a status
StatusCall(c) == c.op \notin Frees \cup {"none"}
\* some required pointer of the call was null
NullPassed(c) == \E i \in DOMAIN c.ptrs : c.ptrs[i] = NULL

(********************************* C1 **************************************)
\* C1: a status-returning operation called with a null required pointer
\* (handle, input or output) returns OV_STATUS_INVALID_C_PARAM, makes no call
\* into the native library and writes nothing: the caller's handle variable,
\* the caller's output memory and the heap are as they were before the call.
NullArgumentRejected ==
    [][(StatusCall(last') /\ NullPassed(last')) =>
          /\ last'.status = OV_STATUS_INVALID_C_PARAM
          /\ last'.native = 0
          /\ out' = FreshOut
          /\ slot' = slot
          /\ heap' = heap]_vars

\* generate was called with a null pipeline handle and valid other pointers
\* while wrappers existed, and no result wrapper came to be
NullPipelineGenerate ==
    /\ last.op = "whisper_pipeline_generate"
    /\ last.ptrs[1] = NULL /\ last.ptrs[2] # NULL /\ last.ptrs[3] # NULL
    /\ Live(heap) # {}
    /\ \A a \in Live(heap) : heap[a].kind # "WhisperResult"

(********************************* C2 **************************************)
\* the range check of an index or bulk accessor rejected the call
RangeRejected(c) ==
    \/ /\ c.op = "whisper_decoded_results_get_text_at"
       /\ c.args[1] >= Len(heap[c.h].results.texts)
    \/ /\ c.op = "whisper_decoded_results_get_chunk_at"
       /\ c.args[1] >= Len(heap[c.h].results.chunks)
    \/ /\ c.op = "whisper_decoded_results_get_scores"
       /\ c.args[1] < Len(heap[c.h].results.scores)

\* C2 as stated: a call that passes the null checks returns OV_STATUS_OK when
\* its body raises nothing, OV_STATUS_GENERAL_ERROR when it raises a standard
\* exception and OV_STATUS_UNKNOW_EXCEPTION when it raises anything else.
StatusFromBodyOutcomeOnly ==
    (StatusCall(last) /\ ~NullPassed(last)) =>
        /\ last.fault = "none" => last.status = OV_STATUS_OK
        /\ last.fault = "std" => last.status = OV_STATUS_GENERAL_ERROR
        /\ last.fault = "other" => last.status = OV_STATUS_UNKNOW_EXCEPTION

\* C2 amended: as stated, except that a body which raises nothing returns
\* OV_STATUS_OUT_OF_BOUNDS, not OV_STATUS_OK, exactly when it is get_text_at or
\* get_chunk_at with index >= count or get_scores with capacity < count; and
\* the status is always one of these four codes.
StatusFromBodyOutcome ==
    (StatusCall(last) /\ ~NullPassed(last)) =>
        /\ last.fault = "none" =>
              last.status = IF RangeRejected(last) THEN OV_STATUS_OUT_OF_BOUNDS
                            ELSE OV_STATUS_OK
        /\ last.fault = "std" => last.status = OV_STATUS_GENERAL_ERROR
        /\ last.fault = "other" => last.status = OV_STATUS_UNKNOW_EXCEPTION
        /\ last.fault \in {"none", "std", "other"}

\* the native generate raised something that is no std::exception and the
\* caller got a status for it
UnknownFaultTranslated ==
    /\ last.op = "whisper_pipeline_generate"
    /\ last.fault = "other"
    /\ last.native = 1
    /\ last.status = OV_STATUS_UNKNOW_EXCEPTION

(********************************* C3 **************************************)
\* C3: when a handle-producing operation returns a status other than
\* OV_STATUS_OK, the caller's void* variable holds what it held before the
\* call and the set of live wrappers is what it was before the call.
FailedProducerLeavesNothing ==
    [][(last'.op \in Producers /\ last'.status # OV_STATUS_OK) =>
          /\ slot' = slot
          /\ Live(heap') = Live(heap)]_vars

\* a producer failed inside the native library, after its wrapper had been
\* allocated, while the caller's variable held an earlier handle
ProducerFailedAfterAllocation ==
    /\ last.op \in Producers
    /\ last.status \in {OV_STATUS_GENERAL_ERROR, OV_STATUS_UNKNOW_EXCEPTION}
    /\ last.native = 1
    /\ slot # NULL

(********************************* C4 **************************************)
\* C4: with T the count get_texts_size reports and C the count
\* get_chunks_size reports for a speech result, get_text_at returns
\* OV_STATUS_OUT_OF_BOUNDS for index >= T and OV_STATUS_OK for index < T,
\* get_chunk_at returns OV_STATUS_OUT_OF_BOUNDS for index >= C and
\* OV_STATUS_OK for index < C, and an out-of-bounds call writes nothing.
IndexAccessorsBounded ==
    ~NullPassed(last) =>
        /\ last.op = "whisper_decoded_results_get_texts_size" =>
              /\ last.status = OV_STATUS_OK
              /\ out.num = Len(heap[last.h].results.texts)
        /\ last.op = "whisper_decoded_results_get_chunks_size" =>
              /\ last.status = OV_STATUS_OK
              /\ out.num = Len(heap[last.h].results.chunks)
        /\ last.op = "whisper_decoded_results_get_text_at" =>
              IF last.args[1] >= Len(heap[last.h].results.texts)
              THEN last.status = OV_STATUS_OUT_OF_BOUNDS /\ out = FreshOut
              ELSE last.status = OV_STATUS_OK
        /\ last.op = "whisper_decoded_results_get_chunk_at" =>
              IF last.args[1] >= Len(heap[last.h].results.chunks)
              THEN last.status = OV_STATUS_OUT_OF_BOUNDS /\ out = FreshOut
              ELSE /\ last.status = OV_STATUS_OK
                   /\ out.chunk.start_time =
                         heap[last.h].results.chunks[last.args[1] + 1].start_ts

\* get_chunk_at succeeded on the last chunk of a result with several chunks
LastChunkRead ==
    /\ last.op = "whisper_decoded_results_get_chunk_at"
    /\ last.status = OV_STATUS_OK
    /\ last.args[1] >= 1
    /\ last.args[1] + 1 = Len(heap[last.h].results.chunks)

(********************************* C5 **************************************)
\* C5: get_scores on a result with N scores returns OV_STATUS_OUT_OF_BOUNDS
\* and writes nothing when scores_size < N; otherwise it returns OV_STATUS_OK,
\* elements 0..N-1 of the caller's array are the native scores and elements
\* N..scores_size-1 are as they were.
ScoresCopiedExactly ==
    (last.op = "whisper_decoded_results_get_scores" /\ ~NullPassed(last)) =>
        LET native == heap[last.h].results.scores
            N == Len(native)
            scores_size == last.args[1]
        IN  /\ Len(out.scores) = scores_size
            /\ IF scores_size < N
               THEN /\ last.status = OV_STATUS_OUT_OF_BOUNDS
                    /\ \A i \in 1..scores_size : out.scores[i] = Untouched
               ELSE /\ last.status = OV_STATUS_OK
                    /\ \A i \in 1..N : out.scores[i] = native[i]
                    /\ \A i \in (N + 1)..scores_size : out.scores[i] = Untouched

\* get_scores copied several scores into an array of exactly that capacity
ScoresFilledToCapacity ==
    /\ last.op = "whisper_decoded_results_get_scores"
    /\ last.status = OV_STATUS_OK
    /\ last.args[1] >= 2
    /\ last.args[1] = Len(heap[last.h].results.scores)

(********************************* C6 **************************************)
\* the call was a string accessor that reached its copy, of this text, into a
\* buffer of this size
StringCopied(c) ==
    /\ ~NullPassed(c)
    /\ \/ c.op = "decoded_results_get_string"
       \/ /\ c.op = "whisper_decoded_results_get_text_at"
          /\ c.args[1] < Len(heap[c.h].results.texts)
ContentOf(c) ==
    IF c.op = "decoded_results_get_string" THEN heap[c.h].results.text
    ELSE heap[c.h].results.texts[c.args[1] + 1]
BufferSizeOf(c) ==
    IF c.op = "decoded_results_get_string" THEN c.args[1] ELSE c.args[2]
\* caller memory holding the first k bytes of text, then one terminator, and
\* nothing else written
Terminated(text, k) ==
    [i \in 1..MemLen |->
        IF i <= k THEN text[i] ELSE IF i = k + 1 THEN NUL ELSE Untouched]

\* C6 as stated: get_text_at (valid index) and get_string with a non-null
\* buffer of output_size bytes and content of L bytes return OV_STATUS_OK and
\* write the first min(output_size - 1, L) bytes of the content and then one
\* terminator, whatever output_size is.
TruncateAndTerminate ==
    StringCopied(last) =>
        /\ last.status = OV_STATUS_OK
        /\ out.buf = Terminated(ContentOf(last),
                                Min(BufferSizeOf(last) - 1, Len(ContentOf(last))))

\* C6, the part the code keeps: the same for every output_size >= 1, where
\* the bytes written fit the buffer.
TruncateAndTerminateNonEmptyBuffer ==
    (StringCopied(last) /\ BufferSizeOf(last) >= 1) =>
        /\ last.status = OV_STATUS_OK
        /\ out.buf = Terminated(ContentOf(last),
                                Min(BufferSizeOf(last) - 1, Len(ContentOf(last))))
        /\ \A i \in 1..MemLen : i > BufferSizeOf(last) => out.buf[i] = Untouched

(********************************* C7 **************************************)
\* the call was a string accessor with a live handle and a null output
SizeQuery(c) ==
    /\ c.op \in {"decoded_results_get_string", "whisper_decoded_results_get_text_at"}
    /\ c.ptrs[1] # NULL
    /\ c.ptrs[2] = NULL

\* C7 as stated: a string accessor called with a null output pointer returns
\* OV_STATUS_OK (and reports the needed size); called with a buffer of the
\* needed size, L + 1, it writes the whole content; called with a buffer one
\* byte smaller it writes the content less its last byte, and the terminator.
TwoPhaseMarshaling ==
    /\ SizeQuery(last) => last.status = OV_STATUS_OK
    /\ (StringCopied(last) /\ BufferSizeOf(last) = Len(ContentOf(last)) + 1) =>
          out.buf = Terminated(ContentOf(last), Len(ContentOf(last)))
    /\ (StringCopied(last) /\ BufferSizeOf(last) = Len(ContentOf(last))
          /\ Len(ContentOf(last)) >= 1) =>
          out.buf = Terminated(ContentOf(last), Len(ContentOf(last)) - 1)

(********************************* C9 **************************************)
\* C9 as stated: a pipeline created with property_args_size key/value
\* arguments after the fixed ones is constructed with those properties: with
\* the pair ("CACHE_DIR", path) for 2, with none for 0.
PropertiesForwarded ==
    (last.op \in {"whisper_pipeline_create", "llm_pipeline_create"}
        /\ last.status = OV_STATUS_OK) =>
        heap[slot].properties = TrailingArgs(last.args[1])

(********************************* C8 **************************************)
Pipelines == {"WhisperPipeline", "LLMPipeline"}
SetConfigOps ==
    {"whisper_pipeline_set_generation_config", "llm_pipeline_set_generation_config"}
GetConfigOps ==
    {"whisper_pipeline_get_generation_config", "llm_pipeline_get_generation_config"}
ConfigSetters ==
    {"whisper_generation_config_set_return_timestamps",
     "generation_config_set_max_new_tokens", "generation_config_set_max_length",
     "generation_config_set_temperature"}

\* C8: the config handle get_generation_config returns holds the pipeline's
\* stored configuration at that moment, and the stored configuration of a
\* pipeline changes in no call but a successful set_generation_config on that
\* pipeline, which makes it the configuration of the handle passed: setters on
\* a config handle, before or after set_generation_config, leave it alone.
ConfigHandleIsCopy ==
    [][/\ (last'.op \in GetConfigOps /\ last'.status = OV_STATUS_OK) =>
             heap'[slot'].config = heap[last'.h].config
       /\ \A p \in Addr :
            (heap[p].kind \in Pipelines /\ heap'[p].kind = heap[p].kind
                /\ heap'[p].config # heap[p].config) =>
               /\ last'.op \in SetConfigOps
               /\ last'.status = OV_STATUS_OK
               /\ last'.h = p
               /\ heap'[p].config = heap[last'.ptrs[2]].config]_vars

\* a setter has just changed a config handle after set_generation_config gave
\* an earlier state of it to a pipeline: the pipeline's stored configuration
\* is no longer the default one and differs from the handle's
SetterAfterSetConfig ==
    /\ last.op \in ConfigSetters
    /\ last.status = OV_STATUS_OK
    /\ \E p \in Addr :
          /\ heap[p].kind \in Pipelines
          /\ heap[p].config \notin {DefaultWhisperConfig, DefaultGenerationConfig}
          /\ heap[p].config # heap[last.h].config
          /\ DOMAIN heap[p].config = DOMAIN heap[last.h].config

(********************************* C10 *************************************)
\* C10: get_max_new_tokens on a text generation config returns OV_STATUS_OK
\* and, once set_max_new_tokens has been called on that handle, the value of
\* the most recent such call, whatever other setters were called since.
MaxNewTokensRoundTrip ==
    (last.op = "generation_config_get_max_new_tokens" /\ ~NullPassed(last)) =>
        /\ last.status = OV_STATUS_OK
        /\ recent[last.h] # Untouched => out.num = recent[last.h]

\* the getter read back a value set earlier on a handle whose max_length was
\* set as well, to something else
ReadBackAfterOtherSetter ==
    /\ last.op = "generation_config_get_max_new_tokens"
    /\ last.status = OV_STATUS_OK
    /\ recent[last.h] # Untouched
    /\ out.num = recent[last.h]
    /\ heap[last.h].config.max_length \in Nums
    /\ heap[last.h].config.max_length # out.num

(********************************* C11 *************************************)
ChatOps == {"llm_pipeline_start_chat", "llm_pipeline_finish_chat"}

\* C11: on a text pipeline a successful start_chat turns the session on and a
\* successful finish_chat turns it off, and nothing else changes it; a
\* generate runs with the session as the last of them left it; and start_chat,
\* finish_chat and generate on a live pipeline return OV_STATUS_OK whenever the
\* native call raises nothing, whatever the session state, each generate
\* storing a handle to a new results wrapper and leaving the earlier ones as
\* they were.
ChatSessionToggled ==
    [][/\ (last'.op = "llm_pipeline_start_chat" /\ last'.status = OV_STATUS_OK) =>
             heap'[last'.h].chat
       /\ (last'.op = "llm_pipeline_finish_chat" /\ last'.status = OV_STATUS_OK) =>
             ~heap'[last'.h].chat
       /\ \A p \in Addr :
            (heap[p].kind = "LLMPipeline" /\ heap'[p].kind = "LLMPipeline"
                /\ heap'[p].chat # heap[p].chat) =>
               /\ last'.op \in ChatOps
               /\ last'.h = p
               /\ last'.status = OV_STATUS_OK
       /\ (last'.op \in ChatOps \cup {"llm_pipeline_generate"}
              /\ ~NullPassed(last') /\ last'.fault = "none") =>
             last'.status = OV_STATUS_OK
       /\ (last'.op = "llm_pipeline_generate" /\ last'.status = OV_STATUS_OK) =>
             /\ slot' \notin Live(heap)
             /\ heap'[slot'].kind = "DecodedResults"
             /\ heap'[slot'].results.chat = heap[last'.h].chat
             /\ \A a \in Live(heap) : heap'[a] = heap[a]]_vars

\* start_chat, generate, generate, finish_chat have all succeeded on one
\* pipeline: the session is over and both results of the session are live
ChatSequenceCompleted ==
    /\ last.op = "llm_pipeline_finish_chat"
    /\ last.status = OV_STATUS_OK
    /\ ~heap[last.h].chat
    /\ \E a, b \in Addr :
          /\ a # b
          /\ heap[a].kind = "DecodedResults" /\ heap[a].results.chat
          /\ heap[b].kind = "DecodedResults" /\ heap[b].results.chat

(********************************* C12 *************************************)
\* C12: the live wrappers are exactly the handles obtained and not yet freed:
\* a handle-producing operation that returns OV_STATUS_OK makes one wrapper
\* live, the one whose handle it stores, and it was not live before; a free
\* operation with a non-null handle ends the life of that wrapper and of no
\* other; a free operation with a null handle changes nothing; and no other
\* call changes which wrappers are live.  So once every handle obtained has
\* been freed once, no wrapper is live.
HandleLifecycle ==
    [][/\ (last'.op \in Producers /\ last'.status = OV_STATUS_OK) =>
             /\ slot' \notin Live(heap)
             /\ Live(heap') = Live(heap) \cup {slot'}
       /\ (last'.op \in Frees /\ last'.h # NULL) =>
             /\ last'.h \in Live(heap)
             /\ Live(heap') = Live(heap) \ {last'.h}
       /\ (last'.op \in Frees /\ last'.h = NULL) =>
             heap' = heap /\ slot' = slot
       /\ (last'.op \notin Frees
              /\ ~(last'.op \in Producers /\ last'.status = OV_STATUS_OK)) =>
             Live(heap') = Live(heap)]_vars

\* create, generate, free of the pipeline, free of the results: four calls,
\* the last one the free of the results handle, and no wrapper is live
PipelineAndResultsFreed ==
    /\ last.op = "whisper_decoded_results_free"
    /\ last.h # NULL
    /\ fuel = MaxDeep - 4
    /\ Live(heap) = {}

(********************************* C13 *************************************)
\* calls that change a wrapper, as data: the operation, the handle it is
\* issued against, the second handle it takes (or NULL) and its value argument
SetterCalls(hp) ==
    {[op |-> "whisper_generation_config_set_language", h |-> a, arg |-> NULL, value |-> t] :
        a \in {b \in Addr : hp[b].kind = "WhisperConfig"}, t \in CStrings}
    \cup
    {[op |-> "generation_config_set_max_new_tokens", h |-> a, arg |-> NULL, value |-> <<v>>] :
        a \in {b \in Addr : hp[b].kind = "GenerationConfig"}, v \in Nums}
SetConfigCalls(hp) ==
    {[op |-> "whisper_pipeline_set_generation_config", h |-> a, arg |-> c, value |-> <<>>] :
        a \in {b \in Addr : hp[b].kind = "WhisperPipeline"},
        c \in {b \in Addr : hp[b].kind = "WhisperConfig"}}
    \cup
    {[op |-> "llm_pipeline_set_generation_config", h |-> a, arg |-> c, value |-> <<>>] :
        a \in {b \in Addr : hp[b].kind = "LLMPipeline"},
        c \in {b \in Addr : hp[b].kind = "GenerationConfig"}}
ChatCalls(hp) ==
    {[op |-> o, h |-> a, arg |-> NULL, value |-> <<>>] :
        o \in ChatOps, a \in {b \in Addr : hp[b].kind = "LLMPipeline"}}
HeapCalls(hp) == SetterCalls(hp) \cup SetConfigCalls(hp) \cup ChatCalls(hp)

\* the heap a successful call leaves, by the operators its action applies
Apply(hp, c) ==
    CASE c.op = "whisper_generation_config_set_language" ->
            SetField(hp, c.h, "language", {c.value})
      [] c.op = "generation_config_set_max_new_tokens" ->
            SetField(hp, c.h, "max_new_tokens", c.value[1])
      [] c.op \in SetConfigOps -> SetGenerationConfig(hp, c.h, c.arg)
      [] c.op = "llm_pipeline_start_chat" -> [hp EXCEPT ![c.h] = StartChat(hp[c.h])]
      [] c.op = "llm_pipeline_finish_chat" -> [hp EXCEPT ![c.h] = FinishChat(hp[c.h])]
\* the call the record c stands for, the string of a set_language being the
\* one found in the wrapper after the call
CallOf(c, after) ==
    [op |-> c.op, h |-> c.h,
     arg |-> IF c.op \in SetConfigOps THEN c.ptrs[2] ELSE NULL,
     value |-> IF c.op = "whisper_generation_config_set_language"
               THEN CHOOSE t \in after[c.h].config.language : TRUE
               ELSE IF c.op = "generation_config_set_max_new_tokens" THEN <<c.args[1]>>
               ELSE <<>>]
HeapOps ==
    {"whisper_generation_config_set_language", "generation_config_set_max_new_tokens"}
        \cup SetConfigOps \cup ChatOps
\* a successful call of one of these operations leaves the heap Apply gives
AppliedAsTaken ==
    (last'.status = OV_STATUS_OK /\ last'.op \in HeapOps) =>
        /\ CallOf(last', heap') \in HeapCalls(heap)
        /\ heap' = Apply(heap, CallOf(last', heap'))

\* C13 as stated: for two distinct live handles, a call issued against one
\* and a call issued against the other leave both handles in the same state
\* in either order.
DistinctHandlesCommute ==
    \A c1, c2 \in HeapCalls(heap) :
        c1.h # c2.h => Apply(Apply(heap, c1), c2) = Apply(Apply(heap, c2), c1)

\* C13 amended: no call changes or frees a wrapper other than the one it is
\* issued against; and a call issued against one handle and a call issued
\* against another leave the heap in the same state in either order, provided
\* neither takes the other's handle as its second argument:
\* set_generation_config(pipeline, config) reads the config handle, so its
\* effect depends on its order among the setters of that config handle.
SingleHandleCallsCommute ==
    /\ [][/\ \A a \in Live(heap) : a # last'.h => heap'[a] = heap[a]
          /\ AppliedAsTaken]_vars
    /\ [](\A c1, c2 \in HeapCalls(heap) :
            (c1.h < c2.h /\ c1.arg # c2.h /\ c2.arg # c1.h) =>
               Apply(Apply(heap, c1), c2) = Apply(Apply(heap, c2), c1))

\* set_language has just changed one of two live speech configs, and the
\* other one still has no language
SetterOnOneOfTwoConfigs ==
    /\ last.op = "whisper_generation_config_set_language"
    /\ last.status = OV_STATUS_OK
    /\ heap[last.h].config.language # {}
    /\ \E b \in Addr :
          /\ b # last.h
          /\ heap[b].kind = "WhisperConfig"
          /\ heap[b].config.language = {}

(********************************* C14 *************************************)
ResultKinds == {"WhisperResult", "DecodedResults"}
ResultAccessors ==
    {"whisper_decoded_results_get_texts_size", "whisper_decoded_results_get_text_at",
     "whisper_decoded_results_get_chunks_size", "whisper_decoded_results_get_chunk_at",
     "whisper_decoded_results_get_scores", "decoded_results_get_string"}

\* C14: a results wrapper is the same after every call but its own free,
\* whatever the call and whatever handle it is issued against; an accessor
\* called again with the same arguments returns the same status and writes
\* the same output; and get_chunk_at fills in the record the caller still
\* holds from an earlier call for the same chunk of the same live result,
\* whatever calls were made in between.
ResultsImmutable ==
    [][/\ \A a \in Addr :
            (heap[a].kind \in ResultKinds /\ ~(last'.op \in Frees /\ last'.h = a)) =>
               heap'[a] = heap[a]
       /\ (last'.op \in ResultAccessors /\ last'.op = last.op /\ last'.h = last.h
              /\ last'.ptrs = last.ptrs /\ last'.args = last.args) =>
             /\ last'.status = last.status
             /\ out' = out
       /\ (last'.op = "whisper_decoded_results_get_chunk_at"
              /\ last'.status = OV_STATUS_OK
              /\ ~held.released
              /\ held.chunk.text = out'.chunk.text) =>
             out'.chunk = held.chunk]_vars

\* generate has succeeded again on the pipeline after a chunk was read from
\* an earlier result of it, and that result is still live
GenerateAfterChunkRead ==
    /\ last.op = "whisper_pipeline_generate"
    /\ last.status = OV_STATUS_OK
    /\ held.chunk.text[1] # NULL
    /\ ~held.released
    /\ held.chunk.text[1] # slot
    /\ heap[held.chunk.text[1]].kind = "WhisperResult"

(********************************* C15 *************************************)
\* C15 as stated: get_text_at (valid index) and get_string called with a
\* non-null buffer write, terminator included, no more than output_size bytes:
\* every cell of caller memory past the first output_size ones is as it was,
\* for every output_size from 0 up and every content length.
WritesWithinCapacity ==
    StringCopied(last) =>
        \A i \in 1..MemLen : i > BufferSizeOf(last) => out.buf[i] = Untouched

(********************************* C16 *************************************)
MetricsProducers ==
    {"whisper_decoded_results_get_perf_metrics", "decoded_results_get_perf_metrics"}

\* C16: a free operation ends the life of the wrapper it is given and leaves
\* every other wrapper as it was, so freeing a pipeline or a results handle
\* frees no handle derived from it; the metrics handle get_perf_metrics
\* returns holds the metrics of the results at that moment;
\* get_features_extraction_duration returns OV_STATUS_OK with the mean and std
\* of the metrics handle's own copy, whether or not the results handle is
\* still live; and the accessors of a results handle raise nothing whether or
\* not the pipeline is still live.
DerivedHandlesOutliveParent ==
    [][/\ (last'.op \in Frees /\ last'.h # NULL) =>
             \A a \in Addr \ {last'.h} : heap'[a] = heap[a]
       /\ (last'.op \in MetricsProducers /\ last'.status = OV_STATUS_OK) =>
             heap'[slot'].metrics = heap[last'.h].results.perf_metrics
       /\ (last'.op = "whisper_perf_metrics_get_features_extraction_duration"
              /\ ~NullPassed(last')) =>
             LET duration == heap[last'.h].metrics.features_extraction_duration
             IN  /\ last'.status = OV_STATUS_OK
                 /\ out'.mean = StaticCastFloat(duration.mean)
                 /\ out'.std = StaticCastFloat(duration.std)
       /\ (last'.op \in ResultAccessors /\ ~NullPassed(last')) =>
             /\ last'.fault = "none"
             /\ last'.status \in {OV_STATUS_OK, OV_STATUS_OUT_OF_BOUNDS}]_vars

\* the metrics of a generated result were read through a metrics handle
\* after the results handle they came from had been freed
MetricsReadAfterResultsFreed ==
    /\ last.op = "whisper_perf_metrics_get_features_extraction_duration"
    /\ last.status = OV_STATUS_OK
    /\ out.mean = StaticCastFloat(PerfMetrics(0).features_extraction_duration.mean)
    /\ out.std = StaticCastFloat(PerfMetrics(0).features_extraction_duration.std)
    /\ \A a \in Addr : heap[a].kind # "WhisperResult"

(********************************* C17 *************************************)
\* C17: the record get_chunk_at fills in holds the chunk's start and end
\* times by value and, as its text, a pointer into the strings of the results
\* wrapper (the wrapper's chunk_cache stays empty); the free of that results
\* handle leaves the caller's record as it is and releases the storage its
\* text pointer refers to, and nothing else releases it; and as long as it is
\* not released the pointer refers to the text of that chunk in a live
\* results wrapper.
ChunkTextBorrowed ==
    [][/\ (last'.op = "whisper_decoded_results_get_chunk_at"
              /\ last'.status = OV_STATUS_OK) =>
             LET src_chunk == heap[last'.h].results.chunks[last'.args[1] + 1]
             IN  /\ held'.chunk.start_time = src_chunk.start_ts
                 /\ held'.chunk.end_time = src_chunk.end_ts
                 /\ held'.chunk.text = <<last'.h, last'.args[1] + 1>>
                 /\ ~held'.released
                 /\ heap'[last'.h].chunk_cache = <<>>
       /\ (last'.op = "whisper_decoded_results_free" /\ last'.h # NULL
              /\ last'.h = held.chunk.text[1] /\ ~held.released) =>
             /\ held'.released
             /\ held'.chunk = held.chunk
       /\ (held'.released /\ ~held.released) =>
             /\ last'.op = "whisper_decoded_results_free"
             /\ last'.h = held.chunk.text[1]
       /\ (held'.chunk.text[1] # NULL /\ ~held'.released) =>
             LET owner == heap'[held'.chunk.text[1]]
             IN  /\ owner.kind = "WhisperResult"
                 /\ held'.chunk.text[2] <= Len(owner.results.chunks)
                 /\ owner.results.chunks[held'.chunk.text[2]].start_ts =
                       held'.chunk.start_time]_vars

\* the results handle a chunk record was copied out of has just been freed:
\* the caller still holds the record, times and text pointer, and the storage
\* behind the pointer is gone
ChunkTextDangling ==
    /\ last.op = "whisper_decoded_results_free"
    /\ held.released
    /\ held.chunk.text[1] = last.h
    /\ held.chunk.start_time # Untouched
    /\ heap[last.h] = NoObj

====
